---- MODULE Spec2Model ----
(***************************************************************************)
(* A model of metalness.cpp: the three reflectance formulas, the IOR       *)
(* search findIOR, the preset driver renderCycle and the window thread     *)
(* WinMain / mainWndProc.                                                  *)
(*                                                                         *)
(* Numbers.  A C++ float or double value v is the integer v * Scale        *)
(* (dyadic fixed point, Scale a power of two).  Sums, differences and      *)
(* products are exact; a quotient is rounded to the nearest grid value.    *)
(* A value stored in a float keeps FloatBits significant bits              *)
(* (RoundToFloat): the float that lengthSqr returns, and float(sum), the   *)
(* narrowing of the double accumulator of findIOR.  IEEE 0/0 is the value  *)
(* NaN, which every arithmetic operator propagates and every comparison    *)
(* answers with FALSE.                                                     *)
(*                                                                         *)
(* getRefractDir, getFresnelCoeff and clamp come from the V-Ray SDK        *)
(* headers (utils.h, misc_ray.h), which are not part of the repository:    *)
(* getFresnelCoeff is some function of (ior, cs) into [0,1] (fresnel);     *)
(* what clamp answers for a NaN argument is fixed per build (clampNaN).    *)
(***************************************************************************)
EXTENDS Integers, Sequences, FiniteSets, TLC

VARIABLES
    clampNaN,     \* build: what VUtils::clamp returns for a NaN argument
    fresnel,      \* SDK: what getFresnelCoeff answers for (ior, cs)
    op, args, res,                       \* a single call of a pure function
    fi_n, fi_k, reflection, base,        \* findIOR: parameters and locals
    ior, xs, sum, bestIOR, bestResult,   \* findIOR: locals
    pc,                                  \* position of the render thread
    sums, searchXs, sampleNaN,           \* history of the search
    metalPresets, buf, fp, csv,          \* globals, the CSV file
    presetIdx, body,                     \* renderCycle: locals
    plotXs,                              \* history of the plot loop
    mpc, msgs, userClosed,               \* WinMain and its message queue
    uaf                                  \* history: the freed buffer was used

(***************************************************************************)
(* Bounds                                                                  *)
(***************************************************************************)
ScaleBits == 3
FloatBits == 5
MaxGrid == 2
AngleSteps == 4
metalPreset_last == 2
bwidth == 3

Scale == 2 ^ ScaleBits

(***************************************************************************)
(* Arithmetic                                                              *)
(***************************************************************************)
NaN == 0 - 100000000

IsNaN(x) == x = NaN

AnyNaN(s) == \E i \in DOMAIN s : s[i] = NaN

\* a / b rounded to the nearest integer (b # 0)
RoundDiv(a, b) ==
    LET n == IF b > 0 THEN a ELSE 0 - a
        d == IF b > 0 THEN b ELSE 0 - b
    IN  (n \div d) + (IF 2 * (n % d) >= d THEN 1 ELSE 0)

\* the float quotient num/den of two values of the same scale
FDiv(num, den) ==
    IF num = NaN \/ den = NaN THEN NaN
    ELSE IF den = 0 THEN NaN
    ELSE LET n == IF den > 0 THEN num ELSE 0 - num
             d == IF den > 0 THEN den ELSE 0 - den
         IN  (n \div d) * Scale + RoundDiv((n % d) * Scale, d)

ISqrt(x) == CHOOSE r \in 0..x : r * r <= x /\ (r + 1) * (r + 1) > x

\* sqrt of a value of scale Scale
FSqrt(x) == IF x = NaN \/ x < 0 THEN NaN ELSE ISqrt(x * Scale)

Pow2(e) == 2 ^ e

\* number of binary digits of x > 0
BitLen(x) == CHOOSE b \in 1..31 : Pow2(b - 1) <= x /\ x < Pow2(b)

\* float(x) of a double x: keep FloatBits significant bits, round to
\* nearest, ties to even
RoundToFloat(x) ==
    IF x = NaN THEN NaN
    ELSE IF x < Pow2(FloatBits) THEN x
    ELSE LET q == Pow2(BitLen(x) - FloatBits)
             lo == x \div q
             r == x % q
         IN  IF 2 * r < q THEN lo * q
             ELSE IF 2 * r > q THEN (lo + 1) * q
             ELSE IF lo % 2 = 0 THEN lo * q ELSE (lo + 1) * q

\* a < b of two floating-point values: FALSE when either is NaN
FLess(a, b) == a # NaN /\ b # NaN /\ a < b

\* the answers a clamp made of comparisons can give for a NaN
ClampBuilds == {"nan", "lo", "hi"}

clamp(x, a, b) ==
    IF x = NaN
    THEN CASE clampNaN = "nan" -> NaN
           [] clampNaN = "lo" -> a
           [] clampNaN = "hi" -> b
    ELSE IF x < a THEN a ELSE IF x > b THEN b ELSE x

(***************************************************************************)
(* Colors                                                                  *)
(***************************************************************************)
Color(r, g, b) == <<r, g, b>>

ColorSub(a, b) ==
    [i \in 1..3 |-> IF a[i] = NaN \/ b[i] = NaN THEN NaN ELSE a[i] - b[i]]

\* Color::lengthSqr, a float in units of 1/Scale^2
lengthSqr(c) ==
    IF AnyNaN(c) THEN NaN
    ELSE RoundToFloat(c[1] * c[1] + c[2] * c[2] + c[3] * c[3])

\* sum += v on a double
DAdd(s, v) == IF s = NaN \/ v = NaN THEN NaN ELSE s + v

(***************************************************************************)
(* The reflectance formulas                                                *)
(***************************************************************************)
getVRayMetallicFresnel_wrongBlend(b, r, iorv, cs, ext) ==
    [i \in 1..3 |->
        IF b[i] = NaN \/ r[i] = NaN THEN NaN
        ELSE RoundDiv(b[i] * (Scale - ext.f) + r[i] * Scale, Scale)]

\* ext: what the SDK calls answer, ext.internalRefl from getRefractDir and
\* ext.f from getFresnelCoeff
getVRayMetallicFresnel(b, r, iorv, cs, ext) ==
    [i \in 1..3 |->
        IF b[i] = NaN \/ r[i] = NaN THEN NaN
        ELSE RoundDiv(b[i] * (Scale - ext.f) + r[i] * ext.f, Scale)]

n_min(r) == FDiv(Scale - r, Scale + r)

n_max(r) == FDiv(Scale + FSqrt(r), Scale - FSqrt(r))

get_n(r, g) ==
    IF AnyNaN(<<r, g, n_min(r), n_max(r)>>) THEN NaN
    ELSE RoundDiv(n_min(r) * g + (Scale - g) * n_max(r), Scale)

\* the result is in units of 1/Scale^2
get_k2(r, n) ==
    IF r = NaN \/ n = NaN THEN NaN
    ELSE IF Scale - r = 0 THEN NaN
    ELSE RoundDiv((n + Scale) * (n + Scale) * r
                    - (n - Scale) * (n - Scale) * Scale, Scale - r)

get_r(n, k) ==
    FDiv((n - Scale) * (n - Scale) + k * k, (n + Scale) * (n + Scale) + k * k)

\* 0.5f*(rs+rp)
Half(rs, rp) == IF rs = NaN \/ rp = NaN THEN NaN ELSE RoundDiv(rs + rp, 2)

\* the rs and rp terms shared by olefresnel and complexFresnel; n and c of
\* scale Scale, k2 of scale Scale^2
FresnelAvg(n, k2, c) ==
    IF AnyNaN(<<n, k2, c>>) THEN NaN
    ELSE LET rs_num == n * n + k2 - 2 * n * c + c * c
             rs_den == n * n + k2 + 2 * n * c + c * c
             rs == FDiv(rs_num, rs_den)
             rp_num == (n * n + k2) * c * c - 2 * n * c * Scale * Scale
                         + Scale * Scale * Scale * Scale
             rp_den == (n * n + k2) * c * c + 2 * n * c * Scale * Scale
                         + Scale * Scale * Scale * Scale
             rp == FDiv(rp_num, rp_den)
         IN  Half(rs, rp)

\* 0.99f on the grid
R099 == (99 * Scale) \div 100

olefresnel(r, g, c) ==
    LET r_ == clamp(r, 0, R099)
        n == get_n(r_, g)
        k2 == get_k2(r_, n)
    IN  FresnelAvg(n, k2, c)

getOleMetallicFresnel(b, r, cos_theta) ==
    Color(olefresnel(b[1], r[1], cos_theta),
          olefresnel(b[2], r[2], cos_theta),
          olefresnel(b[3], r[3], cos_theta))

complexFresnel_signSlip(n, k, c) ==
    LET k2 == k * k
        rs_num == n * n + k2 - 2 * n * c + c * c
        rs_den == n * n + k2 + 2 * n * c + c * c
        rs == FDiv(rs_num, rs_den)
        rp_num == (n * n + k2) * c * c + 2 * n * c * Scale * Scale
                    + Scale * Scale * Scale * Scale
        rp_den == (n * n + k2) * c * c + 2 * n * c * Scale * Scale
                    + Scale * Scale * Scale * Scale
        rp == FDiv(rp_num, rp_den)
    IN  clamp(Half(rs, rp), 0, Scale)

complexFresnel(n, k, c) == clamp(FresnelAvg(n, k * k, c), 0, Scale)

getComplexFresnel(n, k, cs) ==
    Color(complexFresnel(n[1], k[1], cs),
          complexFresnel(n[2], k[2], cs),
          complexFresnel(n[3], k[3], cs))

(***************************************************************************)
(* The preset table.  Values in 1/1000, as written in the source.          *)
(***************************************************************************)
ToFloat(milli) == RoundDiv(milli * Scale, 1000)

MilliColor(a, b, c) == Color(ToFloat(a), ToFloat(b), ToFloat(c))

MetalPreset(name, n, k) == [name |-> name, n |-> n, k |-> k]

metalPresetTable == <<
    MetalPreset("Silver", MilliColor(52, 60, 40), MilliColor(4409, 3597, 2648)),
    MetalPreset("Gold", MilliColor(156, 424, 1383), MilliColor(3602, 2472, 1916)),
    MetalPreset("Copper", MilliColor(238, 1007, 1240), MilliColor(3626, 2582, 2393)),
    MetalPreset("Aluminum", MilliColor(1558, 1015, 633), MilliColor(7712, 6627, 5454)),
    MetalPreset("Chromium", MilliColor(3107, 3181, 2323), MilliColor(3331, 3329, 3135)),
    MetalPreset("Lead", MilliColor(2575, 2544, 2104), MilliColor(4161, 4182, 4189)),
    MetalPreset("Platinum", MilliColor(475, 465, 633), MilliColor(6333, 5107, 3748)),
    MetalPreset("Titanium", MilliColor(253, 288, 522), MilliColor(5280, 4212, 3037)),
    MetalPreset("Tungsten", MilliColor(921, 1344, 2232), MilliColor(6860, 5229, 5146)),
    MetalPreset("Iron", MilliColor(1825, 1225, 1021), MilliColor(7633, 5938, 4395)),
    MetalPreset("Vanadium", MilliColor(431, 607, 912), MilliColor(5558, 4522, 3604)),
    MetalPreset("Zinc", MilliColor(1234, 929, 678), MilliColor(5873, 4975, 4012)),
    MetalPreset("Nickel", MilliColor(1373, 1075, 1134), MilliColor(6627, 5176, 3754)),
    MetalPreset("Mercury", MilliColor(2073, 1552, 1061), MilliColor(5338, 4651, 3863)),
    MetalPreset("Cobalt", MilliColor(2237, 2052, 1737), MilliColor(4236, 3824, 3275)) >>

(***************************************************************************)
(* The SDK's getFresnelCoeff                                               *)
(***************************************************************************)
IorStart == 1001
IorStep == 1
\* the sweep ends at 10.0f (10000) in the program; the model sweeps the
\* first MaxGrid candidates
IorEnd == IorStart + MaxGrid * IorStep
bestIOR_init == 0 - 1000
\* 1e18f: above every sum the sweep can accumulate
bestResult_init == 1000000000

IorCands == {IorStart + i * IorStep : i \in 0..(MaxGrid - 1)}

\* float x=(float) xs/(float) 200
AngleOf(i, steps) == RoundDiv(i * Scale, steps)

\* the cosines findIOR samples
SearchCs == {AngleOf(i, AngleSteps) : i \in 1..(AngleSteps - 1)}

FresnelDomain == IorCands \X (0..Scale)

\* the values getFresnelCoeff answers in the model: 0, 1/2, 1
FresnelVals == {0, Scale \div 2, Scale}

\* every function on the arguments findIOR passes (elsewhere 1 - cs)
FindOracles(cands, cosines) ==
    {[p \in FresnelDomain |-> IF p[2] \in cosines THEN t[p] ELSE Scale - p[2]] :
        t \in [cands \X cosines -> FresnelVals]}

\* constant answers, 1 - cs, and (1 - cs) falling with ior
ProgramOracles ==
    {[p \in FresnelDomain |-> v] : v \in FresnelVals}
      \cup {[p \in FresnelDomain |-> Scale - p[2]],
            [p \in FresnelDomain |->
                (Scale - p[2]) \div (1 + (p[1] - IorStart) \div IorStep)]}

getFresnelCoeff(iorv, cs) ==
    IF <<iorv, cs>> \in DOMAIN fresnel THEN fresnel[<<iorv, cs>>] ELSE 0

(***************************************************************************)
(* findIOR.  ior is counted in steps of 0.001f, so 1.001f is 1001.         *)
(***************************************************************************)
\* lines 209-216 and the loop initialisation of line 223
FindEntry ==
    /\ pc = "find_entry"
    /\ bestIOR' = bestIOR_init
    /\ bestResult' = bestResult_init
    /\ reflection' = getComplexFresnel(fi_n, fi_k, 0)
    /\ base' = getComplexFresnel(fi_n, fi_k, Scale)
    /\ ior' = IorStart
    /\ sum' = 0
    /\ xs' = 1
    /\ sums' = << >>
    /\ searchXs' = {}
    /\ sampleNaN' = FALSE
    /\ pc' = "find_loop"
    /\ UNCHANGED <<fi_n, fi_k>>

\* one pass of the inner loop: lines 225-237
FindSample ==
    /\ pc = "find_loop"
    /\ ior < IorEnd
    /\ xs < AngleSteps
    /\ \E refl \in BOOLEAN :
         LET x == AngleOf(xs, AngleSteps)
             vrayMetallicFresnel ==
                 getVRayMetallicFresnel(base, reflection, ior, x,
                     [internalRefl |-> refl, f |-> getFresnelCoeff(ior, x)])
             complexFresnelC == getComplexFresnel(fi_n, fi_k, x)
         IN  /\ sum' = DAdd(sum, lengthSqr(ColorSub(vrayMetallicFresnel,
                                                    complexFresnelC)))
             /\ sampleNaN' = (sampleNaN \/ AnyNaN(vrayMetallicFresnel)
                                \/ AnyNaN(complexFresnelC))
             /\ searchXs' = searchXs \cup {x}
    /\ xs' = xs + 1
    /\ UNCHANGED <<fi_n, fi_k, reflection, base, ior, bestIOR, bestResult,
                   pc, sums>>

\* the end of one candidate: lines 239-243, then ior+=0.001f and the
\* double sum=0.0f of the next pass
FindCompare ==
    /\ pc = "find_loop"
    /\ ior < IorEnd
    /\ xs >= AngleSteps
    /\ IF FLess(sum, bestResult)
       THEN /\ bestResult' = RoundToFloat(sum)
            /\ bestIOR' = ior
       ELSE UNCHANGED <<bestResult, bestIOR>>
    /\ sums' = Append(sums, [ior |-> ior, sum |-> sum, prevBest |-> bestIOR,
                             took |-> FLess(sum, bestResult)])
    /\ ior' = ior + IorStep
    /\ sum' = 0
    /\ xs' = 1
    /\ UNCHANGED <<fi_n, fi_k, reflection, base, pc, searchXs, sampleNaN>>

\* return bestIOR
FindReturn ==
    /\ pc = "find_loop"
    /\ ior >= IorEnd
    /\ pc' = "find_ret"
    /\ UNCHANGED <<fi_n, fi_k, reflection, base, ior, xs, sum, bestIOR,
                   bestResult, sums, searchXs, sampleNaN>>

(***************************************************************************)
(* renderCycle, the thread WinMain creates.                                *)
(***************************************************************************)
\* the locals of the body of the preset loop (lines 273-361)
NoBody ==
    [reflection |-> << >>, base |-> << >>, ior |-> 0, xs |-> 0, N |-> 0,
     vrayErrorSqr |-> 0, oleErrorSqr |-> 0, vrayError |-> 0, oleError |-> 0]

\* double / float(N), in units of 1/Scale^2
DDiv(s, n) == IF s = NaN THEN NaN ELSE RoundDiv(s, n)

\* sqrt of a double of units 1/Scale^2, in units of 1/Scale
DSqrt(v) == IF v = NaN \/ v < 0 THEN NaN ELSE ISqrt(v)

\* putPixel stores a pixel when (x, y) falls inside the bitmap: x is in
\* (0,1) for every xs plotted, y must be in [0,1]
PutPixelStores(y) == y # NaN /\ 0 <= y /\ y <= Scale

\* putColorGraph: one putPixel per channel
GraphStores(c) == \E i \in 1..3 : PutPixelStores(c[i])

\* a store through buf or cbuf: when the block was freed, the behaviour is
\* undefined; the thread either goes on or the process dies
StoreToBuffer(stores) ==
    IF stores /\ buf = "freed"
    THEN /\ uaf' = TRUE
         /\ mpc' \in {mpc, "exited"}
    ELSE UNCHANGED <<uaf, mpc>>

\* lines 261-270: the buffer, the CSV file and its header line
RenderBegin ==
    /\ pc = "render_start"
    /\ buf' = "alloc"
    /\ \E opened \in BOOLEAN :
         IF opened
         THEN fp' = "open" /\ csv' = <<"header">>
         ELSE fp' = "null" /\ csv' = << >>
    /\ presetIdx' = 0
    /\ pc' = "render_for"
    /\ UNCHANGED <<metalPresets, body, plotXs, uaf, mpc>>

\* lines 272-285: the start of the loop body, up to the call of findIOR
RenderPreset ==
    /\ pc = "render_for"
    /\ presetIdx < metalPreset_last
    /\ StoreToBuffer(TRUE)
    /\ LET n == metalPresets[presetIdx + 1].n
           k == metalPresets[presetIdx + 1].k
       IN  /\ body' = [NoBody EXCEPT !.reflection = getComplexFresnel(n, k, 0),
                                     !.base = getComplexFresnel(n, k, Scale)]
           /\ fi_n' = n
           /\ fi_k' = k
    /\ pc' = "find_entry"
    /\ plotXs' = {}
    /\ UNCHANGED <<metalPresets, buf, fp, csv, presetIdx>>

\* lines 285-298: findIOR has returned
RenderAfterFind ==
    /\ pc = "find_ret"
    /\ body' = [body EXCEPT !.ior = bestIOR, !.xs = 1, !.N = bwidth * 2,
                            !.vrayErrorSqr = 0, !.oleErrorSqr = 0]
    /\ pc' = "render_plot"
    /\ UNCHANGED <<metalPresets, buf, fp, csv, presetIdx, plotXs, uaf, mpc>>

\* one pass of the plot loop: lines 299-336
RenderPlot ==
    /\ pc = "render_plot"
    /\ body.xs < body.N
    /\ \E refl \in BOOLEAN :
        LET x == AngleOf(body.xs, body.N)
            vrayMetallicFresnel ==
                getVRayMetallicFresnel(body.base, body.reflection, body.ior, x,
                    [internalRefl |-> refl, f |-> getFresnelCoeff(body.ior, x)])
            oleMetallicFresnel ==
                getOleMetallicFresnel(body.base, body.reflection, x)
            complexFresnelC ==
                getComplexFresnel(metalPresets[presetIdx + 1].n,
                                  metalPresets[presetIdx + 1].k, x)
        IN  /\ StoreToBuffer(
                  \/ GraphStores(vrayMetallicFresnel)
                  \/ ((body.xs \div 6) % 2 = 0 /\ GraphStores(oleMetallicFresnel))
                  \/ ((body.xs \div 20) % 2 = 0 /\ GraphStores(complexFresnelC)))
            /\ body' = [body EXCEPT
                  !.xs = @ + 1,
                  !.vrayErrorSqr = DAdd(@, lengthSqr(ColorSub(vrayMetallicFresnel,
                                                              complexFresnelC))),
                  !.oleErrorSqr = DAdd(@, lengthSqr(ColorSub(oleMetallicFresnel,
                                                             complexFresnelC)))]
            /\ plotXs' = plotXs \cup {x}
    /\ UNCHANGED <<metalPresets, buf, fp, csv, presetIdx, pc>>

RenderEmit_always ==
    /\ pc = "render_plot"
    /\ body.xs >= body.N
    /\ body' = [body EXCEPT
          !.vrayErrorSqr = DDiv(@, body.N),
          !.oleErrorSqr = DDiv(@, body.N),
          !.vrayError = DSqrt(DDiv(body.vrayErrorSqr, body.N)),
          !.oleError = DSqrt(DDiv(body.oleErrorSqr, body.N))]
    /\ csv' = Append(csv, metalPresets[presetIdx + 1].name)
    /\ msgs' = msgs \cup {"WM_PAINT"}
    /\ pc' = "render_sleep"
    /\ UNCHANGED <<metalPresets, buf, fp, presetIdx, plotXs, uaf, mpc>>

\* lines 338-358: the averages, the CSV record, the repaint request
RenderEmit ==
    /\ pc = "render_plot"
    /\ body.xs >= body.N
    /\ body' = [body EXCEPT
          !.vrayErrorSqr = DDiv(@, body.N),
          !.oleErrorSqr = DDiv(@, body.N),
          !.vrayError = DSqrt(DDiv(body.vrayErrorSqr, body.N)),
          !.oleError = DSqrt(DDiv(body.oleErrorSqr, body.N))]
    /\ csv' = IF fp = "open"
              THEN Append(csv, metalPresets[presetIdx + 1].name)
              ELSE csv
    /\ msgs' = msgs \cup {"WM_PAINT"}
    /\ pc' = "render_sleep"
    /\ UNCHANGED <<metalPresets, buf, fp, presetIdx, plotXs, uaf, mpc>>

\* lines 361-362 and presetIdx++: the body's locals go out of scope
RenderSleep ==
    /\ pc = "render_sleep"
    /\ presetIdx' = presetIdx + 1
    /\ body' = NoBody
    /\ pc' = "render_for"
    /\ UNCHANGED <<metalPresets, buf, fp, csv, plotXs, uaf, mpc>>

\* lines 364-367
RenderReturn ==
    /\ pc = "render_for"
    /\ presetIdx >= metalPreset_last
    /\ fp' = IF fp = "open" THEN "closed" ELSE fp
    /\ pc' = "done"
    /\ UNCHANGED <<metalPresets, buf, csv, presetIdx, body, plotXs, uaf, mpc>>

(***************************************************************************)
(* WinMain and mainWndProc                                                 *)
(***************************************************************************)
\* lines 406-439: the window, then CreateThread
MainStart ==
    /\ mpc = "start"
    /\ \E created \in BOOLEAN :
         IF created
         THEN mpc' = "loop" /\ pc' = "render_start"
         ELSE mpc' = "exited" /\ pc' = pc
    /\ UNCHANGED <<msgs, userClosed, buf, uaf>>

\* the user closes the window
UserClose ==
    /\ mpc = "loop"
    /\ ~userClosed
    /\ userClosed' = TRUE
    /\ msgs' = msgs \cup {"WM_CLOSE"}
    /\ UNCHANGED <<mpc, buf, uaf>>

\* mainWndProc, WM_CLOSE / WM_DESTROY: PostQuitMessage(0)
MainClose ==
    /\ mpc = "loop"
    /\ "WM_CLOSE" \in msgs
    /\ msgs' = (msgs \ {"WM_CLOSE"}) \cup {"WM_QUIT"}
    /\ UNCHANGED <<mpc, userClosed, buf, uaf>>

\* mainWndProc, WM_PAINT: SetDIBitsToDevice reads buf when it is not NULL
MainPaint ==
    /\ mpc = "loop"
    /\ "WM_PAINT" \in msgs
    /\ msgs' = msgs \ {"WM_PAINT"}
    /\ uaf' = (uaf \/ buf = "freed")
    /\ UNCHANGED <<mpc, userClosed, buf>>

\* GetMessage answers 0 for WM_QUIT: the loop of line 442 ends; line 447
\* posts WM_QUIT to the render thread, which reads no messages
MainQuit ==
    /\ mpc = "loop"
    /\ "WM_QUIT" \in msgs
    /\ msgs' = msgs \ {"WM_QUIT"}
    /\ mpc' = "wait"
    /\ UNCHANGED <<userClosed, buf, uaf>>

\* WaitForSingleObject(hRenderThread, 10000): the thread has ended
MainWaitDone ==
    /\ mpc = "wait"
    /\ pc = "done"
    /\ mpc' = "delete"
    /\ UNCHANGED <<msgs, userClosed, buf, uaf>>

\* WaitForSingleObject(hRenderThread, 10000): ten seconds have passed and
\* the thread still runs
MainWaitTimeout ==
    /\ mpc = "wait"
    /\ pc # "done"
    /\ mpc' = "delete"
    /\ UNCHANGED <<msgs, userClosed, buf, uaf>>

\* delete[] buf
MainDelete ==
    /\ mpc = "delete"
    /\ buf' = IF buf = "alloc" THEN "freed" ELSE buf
    /\ mpc' = "return"
    /\ UNCHANGED <<msgs, userClosed, uaf>>

\* CloseHandle and return: the process ends, and the render thread with it
MainReturn ==
    /\ mpc = "return"
    /\ mpc' = "exited"
    /\ UNCHANGED <<msgs, userClosed, buf, uaf>>

(***************************************************************************)
(* Specifications                                                          *)
(***************************************************************************)
envVars == <<clampNaN, fresnel>>

callVars == <<op, args, res>>

findVars == <<fi_n, fi_k, reflection, base, ior, xs, sum, bestIOR, bestResult,
              sums, searchXs, sampleNaN>>

renderVars == <<metalPresets, fp, csv, presetIdx, body, plotXs>>

mainVars == <<mpc, msgs, userClosed, buf, uaf>>

vars == <<envVars, callVars, findVars, pc, renderVars, mainVars>>

ZeroColor == Color(0, 0, 0)

InitCall == op = "none" /\ args = << >> /\ res = 0

InitFindVars ==
    /\ fi_n = ZeroColor /\ fi_k = ZeroColor
    /\ reflection = ZeroColor /\ base = ZeroColor
    /\ ior = 0 /\ xs = 0 /\ sum = 0
    /\ bestIOR = 0 /\ bestResult = 0
    /\ sums = << >> /\ searchXs = {} /\ sampleNaN = FALSE

InitRenderVars ==
    /\ metalPresets = SubSeq(metalPresetTable, 1, metalPreset_last)
    /\ fp = "unopened" /\ csv = << >>
    /\ presetIdx = 0 /\ body = NoBody /\ plotXs = {}

InitMainVars ==
    /\ mpc = "start" /\ msgs = {} /\ userClosed = FALSE
    /\ buf = "null" /\ uaf = FALSE

\* the render thread runs while the process lives
ThreadRuns == mpc \notin {"start", "exited"}

\* the whole program, from the entry of WinMain
Init ==
    /\ clampNaN \in ClampBuilds
    /\ fresnel \in ProgramOracles
    /\ InitCall /\ InitFindVars /\ InitRenderVars /\ InitMainVars
    /\ pc = "none"

Next ==
    \/ ThreadRuns /\ RenderBegin
         /\ UNCHANGED <<envVars, callVars, findVars, msgs, userClosed>>
    \/ ThreadRuns /\ RenderPreset
         /\ UNCHANGED <<envVars, callVars, reflection, base, ior, xs, sum,
                        bestIOR, bestResult, sums, searchXs, sampleNaN,
                        msgs, userClosed>>
    \/ ThreadRuns /\ FindEntry
         /\ UNCHANGED <<envVars, callVars, renderVars, mainVars>>
    \/ ThreadRuns /\ FindSample
         /\ UNCHANGED <<envVars, callVars, renderVars, mainVars>>
    \/ ThreadRuns /\ FindCompare
         /\ UNCHANGED <<envVars, callVars, renderVars, mainVars>>
    \/ ThreadRuns /\ FindReturn
         /\ UNCHANGED <<envVars, callVars, renderVars, mainVars>>
    \/ ThreadRuns /\ RenderAfterFind
         /\ UNCHANGED <<envVars, callVars, findVars, msgs, userClosed>>
    \/ ThreadRuns /\ RenderPlot
         /\ UNCHANGED <<envVars, callVars, findVars, msgs, userClosed>>
    \/ ThreadRuns /\ RenderEmit
         /\ UNCHANGED <<envVars, callVars, findVars, userClosed>>
    \/ ThreadRuns /\ RenderSleep
         /\ UNCHANGED <<envVars, callVars, findVars, msgs, userClosed>>
    \/ ThreadRuns /\ RenderReturn
         /\ UNCHANGED <<envVars, callVars, findVars, msgs, userClosed>>
    \/ MainStart /\ UNCHANGED <<envVars, callVars, findVars, renderVars>>
    \/ UserClose /\ UNCHANGED <<envVars, callVars, findVars, pc, renderVars>>
    \/ MainClose /\ UNCHANGED <<envVars, callVars, findVars, pc, renderVars>>
    \/ MainPaint /\ UNCHANGED <<envVars, callVars, findVars, pc, renderVars>>
    \/ MainQuit /\ UNCHANGED <<envVars, callVars, findVars, pc, renderVars>>
    \/ MainWaitDone /\ UNCHANGED <<envVars, callVars, findVars, pc, renderVars>>
    \/ MainWaitTimeout
         /\ UNCHANGED <<envVars, callVars, findVars, pc, renderVars>>
    \/ MainDelete /\ UNCHANGED <<envVars, callVars, findVars, pc, renderVars>>
    \/ MainReturn /\ UNCHANGED <<envVars, callVars, findVars, pc, renderVars>>

Spec == Init /\ [][Next]_vars

(***************************************************************************)
(* findIOR alone, on arguments of its domain                               *)
(***************************************************************************)
\* the (n, k) arguments tried: the degenerate n = k = 0, a dielectric
\* (n = 1, k = 0) and the first presets
FindInputs ==
    {<<ZeroColor, ZeroColor>>, <<Color(Scale, Scale, Scale), ZeroColor>>}
      \cup {<<metalPresetTable[i].n, metalPresetTable[i].k>> : i \in 1..2}

InitFind ==
    /\ clampNaN \in ClampBuilds
    /\ fresnel \in FindOracles(IorCands, SearchCs)
    /\ InitCall /\ InitRenderVars /\ InitMainVars
    /\ \E a \in FindInputs : fi_n = a[1] /\ fi_k = a[2]
    /\ reflection = ZeroColor /\ base = ZeroColor
    /\ ior = 0 /\ xs = 0 /\ sum = 0
    /\ bestIOR = 0 /\ bestResult = 0
    /\ sums = << >> /\ searchXs = {} /\ sampleNaN = FALSE
    /\ pc = "find_entry"

NextFind ==
    \/ FindEntry /\ UNCHANGED <<envVars, callVars, renderVars, mainVars>>
    \/ FindSample /\ UNCHANGED <<envVars, callVars, renderVars, mainVars>>
    \/ FindCompare /\ UNCHANGED <<envVars, callVars, renderVars, mainVars>>
    \/ FindReturn /\ UNCHANGED <<envVars, callVars, renderVars, mainVars>>

SpecFind == InitFind /\ [][NextFind]_vars

(***************************************************************************)
(* Single calls of the reflectance formulas, on arguments of their domain  *)
(***************************************************************************)
\* n and k values: 0, 1/Scale, 1/2, 1, 3/2, 2, 4
NkGrid == {0, 1, Scale \div 2, Scale, Scale + Scale \div 2, 2 * Scale, 4 * Scale}

\* cosTheta: every grid point of [0, 1]
CosGrid == 0..Scale

ColorGrid ==
    {Color(0, 0, 0), Color(Scale, Scale, Scale),
     Color(Scale \div 2, Scale \div 4, 1),
     Color(Scale - 1, Scale \div 2, Scale \div 4),
     Color(3, 5, 7)}

CallComplexFresnel ==
    \E n \in NkGrid, k \in NkGrid, c \in CosGrid :
        /\ op = "none"
        /\ op' = "complexFresnel"
        /\ args' = <<n, k, c>>
        /\ res' = complexFresnel(n, k, c)

CallGetVRayMetallicFresnel ==
    \E b \in ColorGrid, r \in ColorGrid, i \in IorCands,
       cs \in {0, Scale \div 2, Scale}, f \in 0..Scale, refl \in BOOLEAN :
        LET ext == [internalRefl |-> refl, f |-> f]
        IN  /\ op = "none"
            /\ op' = "getVRayMetallicFresnel"
            /\ args' = [base |-> b, reflection |-> r, ior |-> i, cs |-> cs,
                        ext |-> ext]
            /\ res' = getVRayMetallicFresnel(b, r, i, cs, ext)

CallOlefresnel ==
    \E r \in CosGrid, g \in CosGrid, c \in {0, Scale \div 2, Scale} :
        /\ op = "none"
        /\ op' = "olefresnel"
        /\ args' = <<r, g, c>>
        /\ res' = olefresnel(r, g, c)

InitFresnel ==
    /\ clampNaN \in ClampBuilds
    /\ fresnel = [p \in FresnelDomain |-> 0]
    /\ InitCall /\ InitFindVars /\ InitRenderVars /\ InitMainVars
    /\ pc = "none"

NextFresnel ==
    \/ CallComplexFresnel
         /\ UNCHANGED <<envVars, findVars, pc, renderVars, mainVars>>
    \/ CallGetVRayMetallicFresnel
         /\ UNCHANGED <<envVars, findVars, pc, renderVars, mainVars>>
    \/ CallOlefresnel
         /\ UNCHANGED <<envVars, findVars, pc, renderVars, mainVars>>

SpecFresnel == InitFresnel /\ [][NextFresnel]_vars

(***************************************************************************)
(* Claims about the formulas (SpecFresnel)                                 *)
(***************************************************************************)
\* C7: complexFresnel is total: for every n >= 0, k >= 0 and c in [0,1] the
\* result is a finite value in [0,1], and where the rs denominator is zero
\* (n = k = c = 0) the result is 1.0.
C7_Total ==
    op = "complexFresnel" =>
        /\ res # NaN
        /\ 0 <= res /\ res <= Scale
        /\ (args[1] * args[1] + args[2] * args[2] + 2 * args[1] * args[3]
               + args[3] * args[3] = 0 => res = Scale)

\* C8: at normal incidence (c = 1) the physical model equals the closed
\* form ((n-1)^2+k^2)/((n+1)^2+k^2) of get_r for every n, k >= 0 with
\* n + k > 0, and the clamp leaves the value unchanged (it is in [0,1]).
C8_NormalIncidence ==
    (op = "complexFresnel" /\ args[3] = Scale /\ args[1] + args[2] > 0) =>
        /\ res = get_r(args[1], args[2])
        /\ 0 <= get_r(args[1], args[2]) /\ get_r(args[1], args[2]) <= Scale

C8_Witness ==
    /\ op = "complexFresnel" /\ args[3] = Scale
    /\ args[1] = Scale \div 2 /\ args[2] = 2 * Scale
    /\ res = get_r(args[1], args[2])
    /\ 0 < res /\ res < Scale

\* C9: when the grazing colour equals the base colour, the production
\* approximation returns the base colour for every ior, every cosTheta and
\* every Fresnel coefficient f; the internal-reflection flag does not
\* alter the result.
C9_NoOpBlend ==
    op = "getVRayMetallicFresnel" =>
        /\ (args.reflection = args.base => res = args.base)
        /\ res = getVRayMetallicFresnel(args.base, args.reflection, args.ior,
                    args.cs, [args.ext EXCEPT !.internalRefl = ~@])

C9_Witness ==
    /\ op = "getVRayMetallicFresnel"
    /\ args.reflection = args.base
    /\ args.base = Color(3, 5, 7)
    /\ args.ext.f = Scale \div 2
    /\ args.ext.internalRefl
    /\ res = args.base

(***************************************************************************)
(* Claims about findIOR (SpecFind)                                         *)
(***************************************************************************)
\* a <= b of two floating-point values
FLeq(a, b) == a # NaN /\ b # NaN /\ a <= b

\* the candidates visited whose ior is v
Visited(v) == {j \in DOMAIN sums : sums[j].ior = v}

\* C1: findIOR returns a global minimiser over the grid: the accumulated
\* squared error of the returned candidate is less than or equal to that
\* of every candidate visited, and bestResult equals the returned
\* candidate's accumulated sum.
C1_GlobalMinimiser ==
    pc = "find_ret" =>
        \E j \in Visited(bestIOR) :
            /\ \A i \in DOMAIN sums : FLeq(sums[j].sum, sums[i].sum)
            /\ bestResult = sums[j].sum

\* C2: the first candidate achieving the minimum wins: no earlier candidate
\* has the sum of the returned one, and a later candidate replaces the
\* current best only if its accumulated sum is strictly smaller than the
\* accumulated sum of the candidate it replaces.
C2_FirstMinimumWins ==
    /\ \A j \in DOMAIN sums :
          (sums[j].took /\ sums[j].prevBest # bestIOR_init) =>
              \A p \in Visited(sums[j].prevBest) :
                  FLess(sums[j].sum, sums[p].sum)
    /\ pc = "find_ret" =>
          \A j \in Visited(bestIOR) :
              \A i \in 1..(j - 1) : sums[i].sum # sums[j].sum

\* C3: the value findIOR returns is one of the candidates swept and lies
\* strictly between 1 and 10; the sentinel -1 is never returned.
C3_InsideInterval ==
    pc = "find_ret" =>
        /\ Visited(bestIOR) # {}
        /\ 1000 < bestIOR /\ bestIOR < 10000
        /\ bestIOR # bestIOR_init

\* C4: a sample whose physical or production reflectance is not finite does
\* not put a non-finite value into the accumulated sum: the sum of every
\* candidate stays finite.
C4_NonFiniteSample ==
    sampleNaN =>
        /\ sum # NaN
        /\ \A i \in DOMAIN sums : sums[i].sum # NaN

(***************************************************************************)
(* Claims about the program (Spec)                                         *)
(***************************************************************************)
\* the result records of the CSV file: its lines after the header
Records == IF csv = << >> THEN << >> ELSE Tail(csv)

\* the presets whose record has been written
Emitted == presetIdx + (IF pc = "render_sleep" THEN 1 ELSE 0)

NamesUpTo(k) == [i \in 1..k |-> metalPresets[i].name]

\* C5: the production RMSE reported for a preset is the square root of the
\* winning candidate's accumulated squared error from the search divided by
\* the number of angle samples: it is computed over the angle samples the
\* search used, and the divisor is the number of samples accumulated.
C5_SameSamples ==
    pc = "render_sleep" =>
        /\ plotXs = searchXs
        /\ body.N = Cardinality(plotXs)
        /\ \E j \in Visited(body.ior) :
              body.vrayError = DSqrt(DDiv(sums[j].sum, Cardinality(searchXs)))

\* C6 as stated: renderCycle emits exactly one result record per preset, in
\* table order, in every run, and never writes metalPresets.
C6_OneRecordPerPreset ==
    /\ metalPresets = SubSeq(metalPresetTable, 1, metalPreset_last)
    /\ pc = "done" => Records = NamesUpTo(metalPreset_last)

\* C6 as amended: when fopen succeeded, the records written so far are the
\* names of the presets processed so far, in table order, one each, and all
\* metalPreset_last of them once renderCycle has returned; when fopen
\* failed, no record is written.  metalPresets is never written.
C6_RecordsWhenFileOpen ==
    /\ metalPresets = SubSeq(metalPresetTable, 1, metalPreset_last)
    /\ fp \in {"open", "closed"} =>
          /\ csv # << >> /\ Head(csv) = "header"
          /\ Records = NamesUpTo(Emitted)
    /\ fp \in {"unopened", "null"} => csv = << >>
    /\ (pc = "done" /\ fp = "closed") => Records = NamesUpTo(metalPreset_last)
    /\ pc = "done" => fp \in {"closed", "null"}

C6_Witness ==
    /\ pc = "done" /\ fp = "closed"
    /\ Len(Records) = metalPreset_last
    /\ Records[1] = "Silver"
    /\ Records[metalPreset_last] = metalPresets[metalPreset_last].name

\* C10: the pixel buffer is never used after it is freed: delete[] buf in
\* WinMain comes after the last store of the render thread, and WM_PAINT
\* never reads a freed buffer.
C10_NoUseAfterFree == ~uaf

====
